---- MODULE Spec2Model ----
(***************************************************************************)
(* A model of gomail's export.go: the two line-wrapping writers            *)
(* (qpLineWriter, base64LineWriter), the messageWriter with its stack of   *)
(* multipart writers, and Message.Export / Message.Reset.                  *)
(***************************************************************************)
EXTENDS Integers, Sequences, FiniteSets, TLC

VARIABLES
    qpLineLen,   \* qpLineWriter.lineLen
    qpOut,       \* the bytes received by qpLineWriter.w, each with its origin
    qpIn,        \* concatenation of the inputs of the Write calls so far
    qpCalls,     \* the inputs of the Write calls so far, one per call
    qpRet,       \* n returned by the last Write
    qpPanic,     \* a Write call ended in a run-time panic
    b64LineLen,  \* base64LineWriter.lineLen
    b64Out,      \* the bytes received by base64LineWriter.w, each with its origin
    b64In,       \* concatenation of the inputs of the Write calls so far
    b64Calls,    \* the inputs of the Write calls so far, one per call
    b64Ret,      \* n returned by the last Write
    call,        \* a Write call of a line writer taken one loop iteration at
                 \* a time: the writer, its loop state s, the number of
                 \* iterations so far and the bytes the last one consumed;
                 \* NoCall when no call is followed
    msg,         \* the Message: parts, embedded, attachments, header (a
                 \* reference into heap), charset, encoding, msgWriter
    heap,        \* the header maps, by reference
    w,           \* the messageWriter of the Export in progress, or NilWriter
    pc,          \* position of the Export in progress, "idle" when none
    idx,         \* index of the loop of the Export in progress
    trace,       \* the calls of the Export in progress or last begun: op is
                 \* "open", "close" or "write", kind the section's or the
                 \* entity's kind, arg the boundary opened or the entity's
                 \* index, depth and section the writer's depth and innermost
                 \* open section when the call was made
    exported,    \* the *mail.Message the last Export returned, or NoMessage
    before,      \* the message as it was when the last Export began
    pool,        \* the buffer pool: buffers held (acquired, not returned),
                 \* the buffers put back in order, the next buffer
    nextBoundary,\* the next boundary token
    exports,     \* number of Export calls so far
    lastOp       \* the last operation that finished

qpVars == <<qpLineLen, qpOut, qpIn, qpCalls, qpRet, qpPanic>>

b64Vars == <<b64LineLen, b64Out, b64In, b64Calls, b64Ret>>

exVars == <<msg, heap, w, pc, idx, trace, exported, before, pool,
            nextBoundary, exports, lastOp>>

vars == <<qpVars, b64Vars, call, exVars>>

-----------------------------------------------------------------------------
(* Bytes.  "A" stands for every byte that is none of '=', CR, LF; it is    *)
(* also a hexadecimal digit, so "=AA" is an escape triplet.                *)

CR == "\r"
LF == "\n"
EQ == "="
Bytes == {"A", EQ, CR, LF}

\* src/export.go:206
maxLineLen == 76

\* src/export.go:245   var newline = []byte("=\r\n")
newline == <<EQ, CR, LF>>

\* The '\r', '\n' that base64LineWriter inserts (line 222).
crlf == <<CR, LF>>

Fill(k) == [j \in 1..k |-> "A"]

\* An emitted byte b carries its origin: from = "input" and src its index
\* (from 1) in the concatenated input, from = "inserted" for a byte the writer
\* added itself, from = "stale" for a byte read from the slice's capacity
\* beyond its length.

\* p[:k] of a slice whose first byte is input byte base+1 and whose capacity
\* beyond len(p) holds the bytes cap: Go allows k up to cap(p).
TagSlice(p, cap, base, k) ==
    [j \in 1..k |->
        IF j <= Len(p) THEN [b |-> p[j], src |-> base + j, from |-> "input"]
        ELSE [b |-> cap[j - Len(p)], src |-> 0, from |-> "stale"]]

TagInserted(s) ==
    [j \in 1..Len(s) |-> [b |-> s[j], src |-> 0, from |-> "inserted"]]

\* p[k:]
Drop(p, k) == SubSeq(p, k + 1, Len(p))

\* Go's p[k], k counted from 0.
At(p, k) == p[k + 1]

\* bytes.IndexAny(win, "\n"): index from 0 of the first LF of win, or -1.
IndexNewline(win) ==
    IF \E j \in 1..Len(win) : win[j] = LF
    THEN (CHOOSE j \in 1..Len(win) : win[j] = LF /\ \A k \in 1..(j - 1) : win[k] # LF) - 1
    ELSE -1

-----------------------------------------------------------------------------
(* qpLineWriter.Write, lines 247-287.  A loop state is                     *)
(*   p, cap   the slice still to write and the bytes of its capacity       *)
(*            beyond its length                                            *)
(*   base     number of input bytes before p[0] in the concatenated input  *)
(*   lineLen  w.lineLen                                                    *)
(*   out      bytes handed to w.w so far                                   *)
(*   n        the local n                                                  *)
(*   status   "run", "ret" (returned) or "panic"                           *)
(*   over     a slice or an index of p went beyond len(p)                  *)

\* line 251: the text is not over the limit
QpFits(p, lineLen) == Len(p) < maxLineLen - lineLen

\* line 257: the length of the window searched for a newline
QpWindow(lineLen) == maxLineLen - lineLen + 2

\* lines 269-276: where the soft line break is inserted
QpToWrite(p, lineLen) ==
    IF maxLineLen - lineLen - 2 >= 0 /\ At(p, maxLineLen - lineLen - 2) = EQ
    THEN maxLineLen - lineLen - 2
    ELSE IF At(p, maxLineLen - lineLen - 1) = EQ
         THEN maxLineLen - lineLen - 1
         ELSE maxLineLen - lineLen

\* One iteration of the loop body, lines 250-283, for len(p) > 0.
QpIter(s) ==
    LET p == s.p
        rem == maxLineLen - s.lineLen
    IN
    IF QpFits(p, s.lineLen)
    THEN \* lines 252-254
         [s EXCEPT !.out = @ \o TagSlice(p, s.cap, s.base, Len(p)),
                   !.lineLen = @ + Len(p),
                   !.n = @ + Len(p),
                   !.base = @ + Len(p),
                   !.p = <<>>,
                   !.status = "ret"]
    ELSE IF QpWindow(s.lineLen) > Len(p) + Len(s.cap)
    THEN \* line 257: slice bounds out of range
         [s EXCEPT !.status = "panic", !.over = TRUE]
    ELSE
    LET i == IndexNewline(SubSeq(p \o s.cap, 1, QpWindow(s.lineLen)))
        \* line 257 has sliced p beyond len(p), within cap(p)
        read == s.over \/ QpWindow(s.lineLen) > Len(p)
    IN
    IF i # -1 /\ i = rem + 1 /\ i - 1 >= Len(p)
    THEN \* line 259: p[i-1], index out of range
         [s EXCEPT !.status = "panic", !.over = TRUE]
    ELSE IF i # -1 /\ (i # rem + 1 \/ At(p, i - 1) = CR)
    THEN \* lines 260-264
         IF i + 1 > Len(p)
         THEN \* line 260 writes, line 261 p[i+1:] is out of range
              [s EXCEPT !.out = @ \o TagSlice(p, s.cap, s.base, i + 1),
                        !.status = "panic",
                        !.over = TRUE]
         ELSE [s EXCEPT !.out = @ \o TagSlice(p, s.cap, s.base, i + 1),
                        !.p = Drop(p, i + 1),
                        !.base = @ + i + 1,
                        !.n = @ + i + 1,
                        !.lineLen = 0,
                        !.over = read]
    ELSE \* lines 269-283
         LET toWrite == QpToWrite(p, s.lineLen) IN
         [s EXCEPT !.out = @ \o TagSlice(p, s.cap, s.base, toWrite)
                             \o TagInserted(newline),
                   !.p = Drop(p, toWrite),
                   !.base = @ + toWrite,
                   !.n = @ + toWrite,
                   !.lineLen = 0,
                   !.over = read]

\* The loop of line 249 and the return of line 286.
RECURSIVE QpLoop(_)
QpLoop(s) ==
    IF s.status # "run" THEN s
    ELSE IF Len(s.p) = 0 THEN [s EXCEPT !.status = "ret"]
    ELSE QpLoop(QpIter(s))

\* The loop state when Write(p) begins, line 248.
QpEntry(p, cap, lineLen, out, base) ==
    [p |-> p, cap |-> cap, base |-> base, lineLen |-> lineLen,
     out |-> out, n |-> 0, status |-> "run", over |-> FALSE]

\* The writer state after Write(p) on a slice with capacity bytes cap.
QpWriteResult(p, cap, lineLen, out, base) ==
    QpLoop(QpEntry(p, cap, lineLen, out, base))

-----------------------------------------------------------------------------
(* base64LineWriter.Write, lines 218-232.  A loop state is p, base,        *)
(* lineLen, out, n, status as for qpLineWriter.                            *)

\* The loop condition with the cursor left out.
B64OverIgnoringCursor(p, lineLen) == Len(p) > maxLineLen

\* The loop condition taken at the limit as well as over it.
B64OverOrAt(p, lineLen) == Len(p) + lineLen >= maxLineLen

\* line 220: the loop condition
B64Over(p, lineLen) == Len(p) + lineLen > maxLineLen

\* The cursor left as it is at the end of an iteration.
B64CursorKept(lineLen) == lineLen

\* line 225: w.lineLen = 0
B64CursorReset(lineLen) == 0

\* One iteration of the loop body, lines 221-225.
B64Iter(s) ==
    LET k == maxLineLen - s.lineLen IN
    [s EXCEPT !.out = @ \o TagSlice(s.p, <<>>, s.base, k) \o TagInserted(crlf),
              !.p = Drop(s.p, k),
              !.base = @ + k,
              !.n = @ + k,
              !.lineLen = B64CursorReset(s.lineLen)]

\* After the loop, lines 228-231.
B64Rest(s) ==
    [s EXCEPT !.out = @ \o TagSlice(s.p, <<>>, s.base, Len(s.p)),
              !.lineLen = @ + Len(s.p),
              !.n = @ + Len(s.p),
              !.base = @ + Len(s.p),
              !.p = <<>>,
              !.status = "ret"]

RECURSIVE B64Loop(_)
B64Loop(s) ==
    IF B64Over(s.p, s.lineLen) THEN B64Loop(B64Iter(s)) ELSE B64Rest(s)

\* The loop state when Write(p) begins, line 219.
B64Entry(p, lineLen, out, base) ==
    [p |-> p, base |-> base, lineLen |-> lineLen, out |-> out, n |-> 0,
     status |-> "run"]

B64WriteResult(p, lineLen, out, base) == B64Loop(B64Entry(p, lineLen, out, base))

-----------------------------------------------------------------------------
(* Header maps, map[string][]string.  A value is the sequence of the       *)
(* pieces whose concatenation is the header's string.                      *)

Nil == "nil"

EmptyMap == [f \in {} |-> <<>>]

Has(h, f) == f \in DOMAIN h

\* h[f] = v
Put(h, f, v) == [x \in DOMAIN h \cup {f} |-> IF x = f THEN v ELSE h[x]]

\* for field, value := range g { h[field] = value }
Merge(h, g) ==
    [x \in DOMAIN h \cup DOMAIN g |-> IF x \in DOMAIN g THEN g[x] ELSE h[x]]

\* The references of the header maps: the message's and the writer's.
MsgRef == "m"
WriterRef == "w"

\* The Encoding values Export reads.
QuotedPrintable == "quoted-printable"
Base64 == "base64"
Base64PreEncoded == "base64-pre-encoded"
Unencoded == "8bit"

\* msg.FormatDate(now()), line 104
NowDate == <<"FormatDate(now())">>

-----------------------------------------------------------------------------
(* The buffer pool: getBuffer and putBuffer.                               *)

getBuffer(pl) ==
    [buf |-> pl.next,
     pool |-> [pl EXCEPT !.held = @ \cup {pl.next}, !.next = @ + 1]]

putBuffer(pl, b) ==
    [pl EXCEPT !.held = @ \ {b}, !.puts = Append(@, b)]

RECURSIVE putBuffers(_, _)
putBuffers(pl, bs) ==
    IF bs = <<>> THEN pl ELSE putBuffers(putBuffer(pl, Head(bs)), Tail(bs))

-----------------------------------------------------------------------------
(* The structure classifier, lines 72-82.                                  *)

hasMixedPart(m) ==
    (Len(m.parts) > 0 /\ Len(m.attachments) > 0) \/ Len(m.attachments) > 1

\* hasRelatedPart true for any embedded file.
hasRelatedAnyEmbedded(m) == Len(m.embedded) > 0

hasRelatedPart(m) ==
    (Len(m.parts) > 0 /\ Len(m.embedded) > 0) \/ Len(m.embedded) > 1

hasAlternativePart(m) == Len(m.parts) > 1

-----------------------------------------------------------------------------
(* messageWriter, lines 84-202.  A writer is a record                      *)
(*   header      reference of its header map                               *)
(*   buf         its buffer; data, what has been written to the buffer     *)
(*   writers     the array of 3 multipart writers                          *)
(*   partWriter  the part of the last createPart, or NoPart                *)
(*   depth                                                                 *)
(* A step on a writer yields the writer and the heap of header maps.       *)

\* Capacity of messageWriter.writers, line 88
maxDepth == 3

NoWriter == [kind |-> "none", boundary |-> 0, closed |-> FALSE]

\* No part: the partWriter of a writer that has created none.
NoPart == [boundary |-> 0, header |-> EmptyMap]

\* The nil *messageWriter.
NilWriter ==
    [header |-> Nil, buf |-> 0, data |-> <<>>,
     writers |-> [i \in 1..maxDepth |-> NoWriter], partWriter |-> NoPart,
     depth |-> 0]

\* No *mail.Message.
NoMessage == [Header |-> EmptyMap, Body |-> <<>>, buf |-> 0]

\* header := msg.header, the message's own map instead of a new one.
AliasedHeader(hp) == [ref |-> MsgRef, heap |-> hp]

\* line 95: header := make(map[string][]string, len(msg.header)+2)
MakeHeader(hp) == [ref |-> WriterRef, heap |-> [hp EXCEPT ![WriterRef] = EmptyMap]]

\* lines 93-108
newMessageWriter(m, hp, buf) ==
    LET made == MakeHeader(hp)
        copied == Merge(made.heap[made.ref], made.heap[m.header])
        mime == IF ~Has(copied, "Mime-Version")
                THEN Put(copied, "Mime-Version", <<"1.0">>) ELSE copied
        dated == IF ~Has(mime, "Date") THEN Put(mime, "Date", NowDate) ELSE mime
    IN [w |-> [header |-> made.ref, buf |-> buf, data |-> <<>>,
               writers |-> [i \in 1..maxDepth |-> NoWriter],
               partWriter |-> NoPart, depth |-> 0],
        heap |-> [made.heap EXCEPT ![made.ref] = dated]]

\* The writer of the section that encloses the innermost one.
EnclosingIndex(depth) == IF depth > 1 THEN depth - 1 ELSE depth

\* line 129: the writer the part is created in, w.writers[w.depth-1]
PartIndex(depth) == depth

\* lines 127-130: a part of the innermost open section
createPart(wr, h) ==
    LET part == [boundary |-> wr.writers[PartIndex(wr.depth)].boundary, header |-> h] IN
    [wr EXCEPT !.partWriter = part,
               !.data = Append(@, [t |-> "part", boundary |-> part.boundary,
                                   header |-> h])]

\* An array of writers with room for one more than maxDepth.
OpenFaultsPastEnd(depth) == depth > maxDepth

\* line 114: w.writers[w.depth] is an index out of range of the array of
\* line 88 when w.depth is 3
OpenFaults(depth) == depth >= maxDepth

\* lines 113-125.  The fault of line 114 comes before every assignment.
openMultipart(wr, hp, mimeType, boundary) ==
    LET opened == [wr EXCEPT !.writers[wr.depth + 1] =
                       [kind |-> mimeType, boundary |-> boundary, closed |-> FALSE]]
        contentType == <<"multipart/", mimeType, "; boundary=", boundary>>
    IN IF OpenFaults(wr.depth)
       THEN [w |-> wr, heap |-> hp, panic |-> TRUE]
       ELSE IF wr.depth = 0
       THEN [w |-> [opened EXCEPT !.depth = @ + 1],
             heap |-> [hp EXCEPT ![wr.header] = Put(@, "Content-Type", contentType)],
             panic |-> FALSE]
       ELSE [w |-> [createPart(opened, [f \in {"Content-Type"} |-> contentType])
                       EXCEPT !.depth = @ + 1],
             heap |-> hp,
             panic |-> FALSE]

\* w.writers[0], the outermost writer instead of the innermost.
OutermostIndex(depth) == 1

\* line 134: the writer closeMultipart closes, w.writers[w.depth-1]
CloseIndex(depth) == depth

\* closeMultipart without its w.depth--.
KeepDepth(depth) == depth

\* line 135: w.depth--
CloseDepth(depth) == depth - 1

\* lines 132-137
closeMultipart(wr) ==
    IF wr.depth > 0
    THEN [wr EXCEPT !.writers[CloseIndex(wr.depth)].closed = TRUE,
                    !.data = Append(@, [t |-> "end",
                                 boundary |-> wr.writers[CloseIndex(wr.depth)].boundary]),
                    !.depth = CloseDepth(wr.depth)]
    ELSE wr

\* lines 166-174
writeHeader(wr, hp, h) ==
    IF wr.depth = 0
    THEN [w |-> wr, heap |-> [hp EXCEPT ![wr.header] = Merge(@, h)]]
    ELSE [w |-> createPart(wr, h), heap |-> hp]

\* lines 176-198: the body goes to w.buf at depth 0, to w.partWriter otherwise,
\* through the writer its encoding selects
writeBody(wr, body, enc) ==
    [wr EXCEPT !.data = Append(@, [t |-> "body", body |-> body, enc |-> enc,
                                   to |-> IF wr.depth = 0 THEN 0
                                          ELSE wr.partWriter.boundary])]

\* lines 161-164
write(wr, hp, h, body, enc) ==
    LET r == writeHeader(wr, hp, h) IN
    [w |-> writeBody(r.w, body, enc), heap |-> r.heap]

\* lines 30-33: the header of a part
PartHeader(m, part) ==
    [f \in {"Mime-Version", "Content-Type", "Content-Transfer-Encoding"} |->
        IF f = "Mime-Version" THEN <<"1.0">>
        ELSE IF f = "Content-Type" THEN <<part.contentType, "; charset=", m.charset>>
        ELSE <<m.encoding>>]

\* lines 141-155: the header of a file
FileHeader(f, isAttachment) ==
    LET ct == <<f.MimeType, "; name=\"", f.Name, "\"">>
        cte == <<Base64>>
    IN IF isAttachment
       THEN [x \in {"Content-Type", "Content-Transfer-Encoding", "Content-Disposition"} |->
               IF x = "Content-Type" THEN ct
               ELSE IF x = "Content-Transfer-Encoding" THEN cte
               ELSE <<"attachment; filename=\"", f.Name, "\"">>]
       ELSE [x \in {"Content-Type", "Content-Transfer-Encoding", "Content-Disposition",
                    "Content-ID"} |->
               IF x = "Content-Type" THEN ct
               ELSE IF x = "Content-Transfer-Encoding" THEN cte
               ELSE IF x = "Content-Disposition"
                    THEN <<"inline; filename=\"", f.Name, "\"">>
               ELSE IF f.ContentID # "" THEN <<"<", f.ContentID, ">">>
               ELSE <<"<", f.Name, ">">>]

\* lines 200-202
export(wr, hp) == [Header |-> hp[wr.header], Body |-> wr.data, buf |-> wr.buf]

-----------------------------------------------------------------------------
(* Inputs of the line writers.                                             *)

\* Number of Write calls on one writer.
MaxWrites == 2

\* The long inputs end within FillSpan bytes of the line limit.
FillSpan == 2

FillLens == {0} \cup ((maxLineLen - FillSpan)..maxLineLen)

Tails ==
    { <<>>, <<"A">>, <<EQ>>, <<LF>>, <<CR>>,
      <<"A", "A">>, <<EQ, "A">>, <<EQ, "A", "A">>, <<CR, LF>>,
      <<"A", LF, "A">>, <<"A", "A", "A">> }

\* What a slice's capacity holds beyond its length: nothing, or up to two
\* bytes (the two bytes line 257 may look at).
Caps == { <<>>, <<"A">>, <<LF>>, <<"A", "A">>, <<LF, "A">>, <<"A", LF>> }

\* Inputs of base64LineWriter: up to two full lines and a tail.
B64FillLens == FillLens \cup { maxLineLen + k : k \in FillLens }

B64Tails == { <<>>, <<"A">>, <<LF>>, <<"A", "A">>, <<CR, LF>> }

QpInit ==
    /\ qpLineLen = 0
    /\ qpOut = <<>>
    /\ qpIn = <<>>
    /\ qpCalls = <<>>
    /\ qpRet = 0
    /\ qpPanic = FALSE

B64Init ==
    /\ b64LineLen = 0
    /\ b64Out = <<>>
    /\ b64In = <<>>
    /\ b64Calls = <<>>
    /\ b64Ret = 0

QpWrite(p, cap) ==
    /\ ~qpPanic
    /\ Len(qpCalls) < MaxWrites
    /\ LET r == QpWriteResult(p, cap, qpLineLen, qpOut, Len(qpIn)) IN
       /\ qpLineLen' = r.lineLen
       /\ qpOut' = r.out
       /\ qpRet' = r.n
       /\ qpPanic' = (r.status = "panic")
    /\ qpIn' = qpIn \o p
    /\ qpCalls' = Append(qpCalls, p)
    /\ UNCHANGED <<b64Vars, call, exVars>>

B64Write(p) ==
    /\ Len(b64Calls) < MaxWrites
    /\ LET r == B64WriteResult(p, b64LineLen, b64Out, Len(b64In)) IN
       /\ b64LineLen' = r.lineLen
       /\ b64Out' = r.out
       /\ b64Ret' = r.n
    /\ b64In' = b64In \o p
    /\ b64Calls' = Append(b64Calls, p)
    /\ UNCHANGED <<qpVars, call, exVars>>

\* Write reads the capacity beyond len(p) only where it fails when there is
\* none: the other calls are made with a slice that has none.
CapsRead(p) ==
    IF QpWriteResult(p, <<>>, qpLineLen, qpOut, Len(qpIn)).status = "panic"
    THEN Caps ELSE {<<>>}

QpNext ==
    /\ ~qpPanic
    /\ Len(qpCalls) < MaxWrites
    /\ \E k \in FillLens, t \in Tails :
          \E cap \in CapsRead(Fill(k) \o t) : QpWrite(Fill(k) \o t, cap)

B64Next == \E k \in B64FillLens, t \in B64Tails : B64Write(Fill(k) \o t)

-----------------------------------------------------------------------------
(* Messages.                                                               *)

\* Numbers of parts, of embedded files and of attachments of a message.
MaxParts == 3
MaxFiles == 3

\* Number of Export calls on one message.
MaxExports == 2

\* Part j of a message; its body is buffer j of the pool.
PartsOf(n) == [j \in 1..n |-> [contentType |-> <<"text/part", j>>, body |-> j]]

FilesOf(n, tag) ==
    [j \in 1..n |->
        [Name |-> <<tag, j>>,
         MimeType |-> "application/octet-stream",
         ContentID |-> IF j % 2 = 0 THEN <<"cid", tag, j>> ELSE "",
         encoding |-> IF j % 2 = 1 THEN Base64 ELSE Base64PreEncoded]]

\* The header maps of the caller: Mime-Version and Date set or not.
CallerHeaders ==
    { [f \in F |-> IF f = "Mime-Version" THEN <<"1.1">> ELSE <<"caller's date">>] :
        F \in SUBSET {"Mime-Version", "Date"} }

Encodings == {QuotedPrintable, Base64, Unencoded}

MessageOf(np, ne, na, enc) ==
    [parts |-> PartsOf(np),
     embedded |-> FilesOf(ne, "embedded"),
     attachments |-> FilesOf(na, "attachment"),
     header |-> MsgRef,
     charset |-> "UTF-8",
     encoding |-> enc,
     msgWriter |-> NilWriter]

\* What Export may not change: the message without its msgWriter, and the
\* contents of its header map.
Snapshot(m, hp) ==
    [parts |-> m.parts, embedded |-> m.embedded, attachments |-> m.attachments,
     header |-> m.header, charset |-> m.charset, encoding |-> m.encoding,
     headerMap |-> hp[m.header]]

ExInitWith(np, ne, na, hdr, enc) ==
    /\ msg = MessageOf(np, ne, na, enc)
    /\ heap = [r \in {MsgRef, WriterRef} |-> IF r = MsgRef THEN hdr ELSE EmptyMap]
    /\ w = NilWriter
    /\ pc = "idle"
    /\ idx = 1
    /\ trace = <<>>
    /\ exported = NoMessage
    /\ before = Snapshot(MessageOf(np, ne, na, enc), [r \in {MsgRef} |-> hdr])
    /\ pool = [held |-> 1..np, puts |-> <<>>, next |-> np + 1]
    /\ nextBoundary = 1
    /\ exports = 0
    /\ lastOp = "none"

\* A message with any numbers of parts and files, as its builder left it.
ExInit ==
    \E np \in 0..MaxParts, ne \in 0..MaxFiles, na \in 0..MaxFiles,
       hdr \in CallerHeaders, enc \in Encodings :
        ExInitWith(np, ne, na, hdr, enc)

\* An empty message.
ExIdle == ExInitWith(0, 0, 0, EmptyMap, QuotedPrintable)

\* The kind of the innermost open section of a writer.
Section(wr) == IF wr.depth = 0 THEN "none" ELSE wr.writers[wr.depth].kind

\* line 16
ExportBegin ==
    /\ pc = "idle"
    /\ exports < MaxExports
    /\ LET g == getBuffer(pool)
           r == newMessageWriter(msg, heap, g.buf)
       IN /\ w' = r.w
          /\ heap' = r.heap
          /\ pool' = g.pool
    /\ before' = Snapshot(msg, heap)
    /\ trace' = <<>>
    /\ idx' = 1
    /\ exports' = exports + 1
    /\ pc' = "openMixed"
    /\ UNCHANGED <<msg, exported, nextBoundary, lastOp, qpVars, b64Vars, call>>

\* if needed { w.openMultipart(mimeType) }
OpenStep(at, next, needed, mimeType) ==
    /\ pc = at
    /\ IF needed
       THEN LET r == openMultipart(w, heap, mimeType, nextBoundary) IN
            /\ w' = r.w
            /\ heap' = r.heap
            /\ nextBoundary' = nextBoundary + 1
            /\ trace' = Append(trace, [op |-> "open", kind |-> mimeType,
                                       arg |-> nextBoundary, depth |-> w.depth,
                                       section |-> Section(w)])
       ELSE UNCHANGED <<w, heap, nextBoundary, trace>>
    /\ pc' = IF needed /\ openMultipart(w, heap, mimeType, nextBoundary).panic
             THEN "panic" ELSE next
    /\ UNCHANGED <<msg, idx, exported, before, pool, exports, lastOp, qpVars, b64Vars, call>>

\* if needed { w.closeMultipart() }
CloseStep(at, next, needed) ==
    /\ pc = at
    /\ IF needed
       THEN /\ w' = closeMultipart(w)
            /\ trace' = Append(trace,
                   [op |-> "close",
                    kind |-> IF w.depth > 0 THEN w.writers[CloseIndex(w.depth)].kind
                             ELSE "none",
                    arg |-> 0, depth |-> w.depth, section |-> Section(w)])
       ELSE UNCHANGED <<w, trace>>
    /\ pc' = next
    /\ idx' = 1
    /\ UNCHANGED <<msg, heap, exported, before, pool, nextBoundary, exports, lastOp,
                   qpVars, b64Vars, call>>

\* lines 18-20
OpenMixed == OpenStep("openMixed", "openRelated", hasMixedPart(msg), "mixed")

\* lines 22-24
OpenRelated == OpenStep("openRelated", "openAlternative", hasRelatedPart(msg), "related")

\* lines 26-28
OpenAlternative == OpenStep("openAlternative", "parts", hasAlternativePart(msg), "alternative")

\* One entity written, or the end of the loop over list.
WriteStep(at, next, list, kind, h, body, enc) ==
    /\ pc = at
    /\ IF idx <= Len(list)
       THEN LET r == write(w, heap, h, body, enc) IN
            /\ w' = r.w
            /\ heap' = r.heap
            /\ trace' = Append(trace, [op |-> "write", kind |-> kind, arg |-> idx,
                                       depth |-> w.depth, section |-> Section(w)])
            /\ idx' = idx + 1
            /\ pc' = at
       ELSE /\ pc' = next
            /\ UNCHANGED <<w, heap, trace, idx>>
    /\ UNCHANGED <<msg, exported, before, pool, nextBoundary, exports, lastOp,
                   qpVars, b64Vars, call>>

\* lines 29-36: one iteration of the loop over msg.parts, or its end
WritePart ==
    LET part == IF idx <= Len(msg.parts) THEN msg.parts[idx] ELSE PartsOf(1)[1] IN
    WriteStep("parts", "closeAlternative", msg.parts, "part",
              PartHeader(msg, part), part.body, msg.encoding)

\* lines 37-39
CloseAlternative == CloseStep("closeAlternative", "embedded", hasAlternativePart(msg))

\* line 41, lines 139-159: one iteration of addFiles(msg.embedded, false), or its end
AddEmbedded ==
    LET f == IF idx <= Len(msg.embedded) THEN msg.embedded[idx]
             ELSE FilesOf(1, "embedded")[1] IN
    WriteStep("embedded", "closeRelated", msg.embedded, "embedded",
              FileHeader(f, FALSE), f.Name, f.encoding)

\* lines 42-44
CloseRelated == CloseStep("closeRelated", "attachments", hasRelatedPart(msg))

\* line 46, lines 139-159: one iteration of addFiles(msg.attachments, true), or its end
AddAttachment ==
    LET f == IF idx <= Len(msg.attachments) THEN msg.attachments[idx]
             ELSE FilesOf(1, "attachment")[1] IN
    WriteStep("attachments", "closeMixed", msg.attachments, "attachment",
              FileHeader(f, TRUE), f.Name, f.encoding)

\* lines 47-49
CloseMixed == CloseStep("closeMixed", "return", hasMixedPart(msg))

\* lines 50-52
ExportReturn ==
    /\ pc = "return"
    /\ msg' = [msg EXCEPT !.msgWriter = w]
    /\ exported' = export(w, heap)
    /\ w' = NilWriter
    /\ pc' = "idle"
    /\ lastOp' = "export"
    /\ UNCHANGED <<heap, idx, trace, before, pool, nextBoundary, exports,
                   qpVars, b64Vars, call>>

\* Reset without its msg.msgWriter = nil.
KeepWriter(m) == m.msgWriter

\* line 66: msg.msgWriter = nil
ResetWriter(m) == NilWriter

\* lines 58-70
Reset ==
    /\ pc = "idle"
    /\ LET parts == putBuffers(pool, [j \in 1..Len(msg.parts) |-> msg.parts[j].body])
       IN pool' = IF msg.msgWriter # NilWriter THEN putBuffer(parts, msg.msgWriter.buf)
                  ELSE parts
    /\ msg' = [msg EXCEPT !.parts = <<>>, !.msgWriter = ResetWriter(msg),
                          !.header = MsgRef,
                          !.attachments = <<>>, !.embedded = <<>>]
    /\ heap' = [heap EXCEPT ![MsgRef] = EmptyMap]
    /\ lastOp' = "reset"
    /\ UNCHANGED <<w, pc, idx, trace, exported, before, nextBoundary, exports,
                   qpVars, b64Vars, call>>

ExNext ==
    \/ ExportBegin
    \/ OpenMixed
    \/ OpenRelated
    \/ OpenAlternative
    \/ WritePart
    \/ CloseAlternative
    \/ AddEmbedded
    \/ CloseRelated
    \/ AddAttachment
    \/ CloseMixed
    \/ ExportReturn
    \/ Reset

\* No Write call is followed.
NoCall == [writer |-> "none"]

Init == QpInit /\ B64Init /\ call = NoCall /\ ExIdle

SpecQp == Init /\ [][QpNext]_vars

SpecB64 == Init /\ [][B64Next]_vars

\* Fresh line writers and a message with any numbers of parts and files.
InitExport == QpInit /\ B64Init /\ call = NoCall /\ ExInit

SpecExport == InitExport /\ [][ExNext]_vars

-----------------------------------------------------------------------------
(* A messageWriter on which openMultipart and closeMultipart are called in *)
(* any order.  pc is "writer" while the calls go on and "panic" after the  *)
(* fault of line 114; trace records the calls.                             *)

\* Number of calls on the writer.
MaxCalls == 6

MimeTypes == {"mixed", "related", "alternative"}

\* The writer newMessageWriter makes for an empty message.
InitWriter ==
    /\ QpInit
    /\ B64Init
    /\ call = NoCall
    /\ \E hdr \in CallerHeaders :
          LET m == MessageOf(0, 0, 0, QuotedPrintable)
              hp == [r \in {MsgRef, WriterRef} |-> IF r = MsgRef THEN hdr ELSE EmptyMap]
              got == getBuffer([held |-> {}, puts |-> <<>>, next |-> 1])
              made == newMessageWriter(m, hp, got.buf)
          IN  /\ msg = m
              /\ heap = made.heap
              /\ w = made.w
              /\ pool = got.pool
              /\ before = Snapshot(m, hp)
    /\ pc = "writer"
    /\ idx = 1
    /\ trace = <<>>
    /\ exported = NoMessage
    /\ nextBoundary = 1
    /\ exports = 0
    /\ lastOp = "none"

\* w.openMultipart(mimeType).  Whether NewWriter has drawn its boundary when
\* line 114 faults is the compiler's choice.
CallOpen(mimeType) ==
    /\ pc = "writer"
    /\ Len(trace) < MaxCalls
    /\ LET r == openMultipart(w, heap, mimeType, nextBoundary) IN
       /\ w' = r.w
       /\ heap' = r.heap
       /\ pc' = IF r.panic THEN "panic" ELSE "writer"
       /\ nextBoundary' \in IF r.panic THEN {nextBoundary, nextBoundary + 1}
                            ELSE {nextBoundary + 1}
    /\ trace' = Append(trace, [op |-> "open", kind |-> mimeType,
                               arg |-> nextBoundary, depth |-> w.depth,
                               section |-> Section(w)])
    /\ lastOp' = "open"
    /\ UNCHANGED <<msg, idx, exported, before, pool, exports, qpVars, b64Vars, call>>

\* w.closeMultipart()
CallClose ==
    /\ pc = "writer"
    /\ Len(trace) < MaxCalls
    /\ w' = closeMultipart(w)
    /\ trace' = Append(trace,
           [op |-> "close",
            kind |-> IF w.depth > 0 THEN w.writers[CloseIndex(w.depth)].kind
                     ELSE "none",
            arg |-> 0, depth |-> w.depth, section |-> Section(w)])
    /\ lastOp' = "close"
    /\ UNCHANGED <<msg, heap, pc, idx, exported, before, pool, nextBoundary,
                   exports, qpVars, b64Vars, call>>

WriterNext ==
    \/ \E mimeType \in MimeTypes : CallOpen(mimeType)
    \/ CallClose

SpecWriter == InitWriter /\ [][WriterNext]_vars

-----------------------------------------------------------------------------
(* A Write call of a line writer taken one loop iteration at a time, for   *)
(* every cursor the writer can rest at.                                    *)

\* The cursors at rest: qpLineWriter leaves lineLen below the limit (line
\* 251), base64LineWriter at most at the limit (line 220).
QpCursors == 0..(maxLineLen - 1)
B64Cursors == 0..maxLineLen

\* The inputs of a call at cursor c: a run that ends within FillSpan bytes of
\* the room left on the line, or no run; then a tail; then nothing or the
\* bytes of one more line.
LoopInputs(c, tails) ==
    { Fill(k) \o t \o Fill(m) :
        k \in {0} \cup {j \in (maxLineLen - c - FillSpan)..(maxLineLen - c) : j >= 0},
        t \in tails,
        m \in {0, maxLineLen} }

\* As CapsRead, at cursor c.
LoopCaps(p, c) ==
    IF QpWriteResult(p, <<>>, c, <<>>, 0).status = "panic" THEN Caps ELSE {<<>>}

Following(writer, s) ==
    [writer |-> writer, s |-> s, iters |-> 0, last |-> -1, stalls |-> 0]

InitLoops ==
    /\ QpInit
    /\ B64Init
    /\ ExIdle
    /\ \/ \E c \in QpCursors : \E p \in LoopInputs(c, Tails) :
             \E cap \in LoopCaps(p, c) :
                call = Following("qp", QpEntry(p, cap, c, <<>>, 0))
       \/ \E c \in B64Cursors : \E p \in LoopInputs(c, B64Tails) :
             call = Following("b64", B64Entry(p, c, <<>>, 0) )

\* The call after an iteration that took its loop state to next.
Iterated(next) ==
    [call EXCEPT !.s = next,
                 !.iters = @ + 1,
                 !.last = Len(call.s.p) - Len(next.p),
                 !.stalls = IF Len(next.p) = Len(call.s.p) /\ next.status = "run"
                            THEN @ + 1 ELSE @]

\* lines 249-284: one iteration of qpLineWriter.Write
QpIterate ==
    /\ call.writer = "qp"
    /\ call.s.status = "run"
    /\ Len(call.s.p) > 0
    /\ call' = Iterated(QpIter(call.s))
    /\ UNCHANGED <<qpVars, b64Vars, exVars>>

\* lines 249, 286: the loop ends, return n, nil
QpReturn ==
    /\ call.writer = "qp"
    /\ call.s.status = "run"
    /\ Len(call.s.p) = 0
    /\ call' = [call EXCEPT !.s.status = "ret"]
    /\ UNCHANGED <<qpVars, b64Vars, exVars>>

\* lines 220-226: one iteration of base64LineWriter.Write
B64Iterate ==
    /\ call.writer = "b64"
    /\ call.s.status = "run"
    /\ B64Over(call.s.p, call.s.lineLen)
    /\ call' = Iterated(B64Iter(call.s))
    /\ UNCHANGED <<qpVars, b64Vars, exVars>>

\* lines 220, 228-231: the loop ends, the rest is written
B64Return ==
    /\ call.writer = "b64"
    /\ call.s.status = "run"
    /\ ~B64Over(call.s.p, call.s.lineLen)
    /\ call' = [call EXCEPT !.s = B64Rest(@)]
    /\ UNCHANGED <<qpVars, b64Vars, exVars>>

LoopNext ==
    \/ QpIterate
    \/ QpReturn
    \/ B64Iterate
    \/ B64Return

SpecLoops == InitLoops /\ [][LoopNext]_vars

\* A call that has begun goes on: Write runs to its end once called.
SpecLoopsFair == SpecLoops /\ WF_vars(LoopNext)

-----------------------------------------------------------------------------
(* Measuring the lines of an output.                                       *)

BytesOf(out) == [j \in 1..Len(out) |-> out[j].b]

SetMax(S) == CHOOSE m \in S : \A x \in S : x <= m

\* s[j] ends a line: it is the LF of a CR LF or, when bareLF, any LF.
IsTerminator(s, bareLF, j) ==
    s[j] = LF /\ (bareLF \/ (j > 1 /\ s[j - 1] = CR))

\* The positions where a line of s ends: its terminators and the end of s.
LineEnds(s, bareLF) ==
    {j \in 1..Len(s) : IsTerminator(s, bareLF, j)} \cup {Len(s) + 1}

\* The length of the line that ends at e, the terminator's CR and LF not
\* counted.
LineLenAt(s, bareLF, e) ==
    LET start == SetMax({t \in LineEnds(s, bareLF) : t < e} \cup {0})
        raw == e - start - 1
    IN IF e <= Len(s) /\ e - 1 > start /\ s[e - 1] = CR THEN raw - 1 ELSE raw

\* The longest line of s.
LongestLine(s, bareLF) ==
    LET ends == LineEnds(s, bareLF) IN
    SetMax({LineLenAt(s, bareLF, e) : e \in ends})

\* Number of bytes of s after its last LF.
SinceTerminator(s) ==
    Len(s) - SetMax({j \in 1..Len(s) : s[j] = LF} \cup {0})

\* Well-formed quoted-printable text: every '=' is followed by two
\* hexadecimal digits.
WellFormedQp(s) ==
    \A i \in 1..Len(s) :
        s[i] = EQ => i + 2 <= Len(s) /\ s[i + 1] = "A" /\ s[i + 2] = "A"

-----------------------------------------------------------------------------
(* Claims about the line writers.                                          *)

\* C1: every line qpLineWriter emits, the '=' of an inserted soft line break
\* counted and the line terminator not, is at most 76 characters long.
C1_QpLineAtMost76 == LongestLine(BytesOf(qpOut), TRUE) <= maxLineLen

\* C2: when the concatenated input is well-formed quoted-printable text, the
\* three bytes of every escape triplet are adjacent in the output: no soft
\* line break is inserted after the '=' or after its first hex digit.
C2_QpTripletNotSplit ==
    (WellFormedQp(qpIn) /\ ~qpPanic) =>
        \A j \in 1..Len(qpOut) :
            (qpOut[j].from = "input" /\ qpOut[j].b = EQ /\ j + 2 <= Len(qpOut)) =>
                /\ qpOut[j + 1].from = "input"
                /\ qpOut[j + 1].src = qpOut[j].src + 1
                /\ qpOut[j + 2].from = "input"
                /\ qpOut[j + 2].src = qpOut[j].src + 2

\* C3: every line base64LineWriter emits, i.e. the bytes between two
\* consecutive CR LF and the unterminated tail, is at most 76 characters long.
C3_B64LineAtMost76 == LongestLine(BytesOf(b64Out), FALSE) <= maxLineLen

\* C3 witness: the writer has wrapped (it inserted a CR LF) and there is a
\* line of exactly 76 characters.
C3_Witness ==
    /\ \E j \in 1..Len(b64Out) : b64Out[j].from = "inserted"
    /\ LongestLine(BytesOf(b64Out), FALSE) = maxLineLen
    /\ Len(b64Calls) = MaxWrites

\* C10: at rest between Write calls the cursor of a line writer is the number
\* of bytes it has emitted since the last line terminator of its output.
C10_CursorIsColumn ==
    /\ ~qpPanic => qpLineLen = SinceTerminator(BytesOf(qpOut))
    /\ b64LineLen = SinceTerminator(BytesOf(b64Out))

\* The bytes of out that the writer did not insert itself.
WithoutInserted(out) == SelectSeq(out, LAMBDA x : x.from # "inserted")

\* Every Write so far returned, and returned the length of its input.
QpReturnedLen ==
    /\ ~qpPanic
    /\ qpCalls # <<>> => qpRet = Len(qpCalls[Len(qpCalls)])

\* C11: the bytes qpLineWriter has emitted, the soft line breaks it inserted
\* removed, are the concatenation of the inputs of its Write calls in order,
\* and every Write returned the length of its input.
C11_QpOutputIsInput ==
    /\ QpReturnedLen
    /\ BytesOf(WithoutInserted(qpOut)) = qpIn
    /\ \A j \in 1..Len(WithoutInserted(qpOut)) :
          /\ WithoutInserted(qpOut)[j].from = "input"
          /\ WithoutInserted(qpOut)[j].src = j

\* s with CR LF inserted after every 76th byte that another byte follows:
\* full lines of 76 bytes and their CR LF, then the unterminated remainder.
Wrapped(s) ==
    LET breaks == IF Len(s) = 0 THEN 0 ELSE (Len(s) - 1) \div maxLineLen
        span == maxLineLen + Len(crlf)
    IN  [q \in 1..(Len(s) + Len(crlf) * breaks) |->
            LET off == (q - 1) % span
                line == (q - 1) \div span
            IN  IF off < maxLineLen THEN s[line * maxLineLen + off + 1]
                ELSE crlf[off - maxLineLen + 1]]

\* C12: whatever the division of the input into Write calls, the output of
\* base64LineWriter is the concatenated input with CR LF after every 76th byte
\* that another byte follows, and every Write returned the length of its input.
C12_B64OutputIsWrappedInput ==
    /\ BytesOf(b64Out) = Wrapped(b64In)
    /\ b64Calls # <<>> => b64Ret = Len(b64Calls[Len(b64Calls)])

\* C12 witness: the first Write ended exactly at the line limit and the second
\* was longer than a line, so a CR LF was due between the two calls and another
\* within the second.
C12_Witness ==
    /\ Len(b64Calls) = 2
    /\ Len(b64Calls[1]) = maxLineLen
    /\ Len(b64Calls[2]) > maxLineLen
    /\ Cardinality({j \in 1..Len(b64Out) : b64Out[j].from = "inserted"}) >= 2 * Len(crlf)

\* C18: qpLineWriter.Write takes no slice p[:k] with k > len(p) and reads no
\* p[k] with k >= len(p), whatever the cursor (0..75) and the input.
C18_QpReadsInRange ==
    call.writer = "qp" => (~call.s.over /\ call.s.status # "panic")

\* The step is a loop iteration after which the call still runs or has
\* returned.
IterationStep == call'.iters = call.iters + 1 /\ call'.s.status # "panic"

\* C19: every Write call of either line writer comes to its end, whatever the
\* input and the cursor: an iteration of its loop consumes at least one input
\* byte, or it resets the cursor to 0 and the iteration before it, if any,
\* consumed at least one (no two iterations in a row consume nothing).
C19_WriteTerminates ==
    /\ [][IterationStep =>
             \/ call'.last >= 1
             \/ (call'.s.lineLen = 0 /\ call.last # 0)]_vars
    /\ <>(call.s.status # "run")

\* C19 witness: a qpLineWriter.Write has returned after three or more
\* iterations, one of which emitted a soft line break only.
C19_Witness ==
    /\ call.writer = "qp"
    /\ call.s.status = "ret"
    /\ call.iters >= 3
    /\ call.stalls = 1

-----------------------------------------------------------------------------
(* Claims about the messageWriter.                                         *)

\* The call that made the step.
CalledOp == trace'[Len(trace')].op

\* C14: whatever the sequence of openMultipart and closeMultipart calls, the
\* depth stays within 0..3; openMultipart at depth 3 faults and leaves the
\* writer, its depth and its array of writers included, as it was;
\* closeMultipart at depth 0 leaves the writer as it was.
C14_DepthBounded ==
    [][/\ w'.depth \in 0..maxDepth
       /\ (CalledOp = "open" /\ w.depth = maxDepth) =>
             (pc' = "panic" /\ w' = w /\ heap' = heap)
       /\ (CalledOp = "open" /\ w.depth < maxDepth) => pc' = "writer"
       /\ (CalledOp = "close" /\ w.depth = 0) => (w' = w /\ heap' = heap)]_vars

\* C14 witness: closeMultipart was called at depth 0, and later openMultipart
\* at depth 3, which faulted.
C14_Witness ==
    /\ pc = "panic"
    /\ w.depth = maxDepth
    /\ trace[Len(trace)].op = "open" /\ trace[Len(trace)].depth = maxDepth
    /\ \E j \in 1..Len(trace) : trace[j].op = "close" /\ trace[j].depth = 0

-----------------------------------------------------------------------------
(* Claims about Export and Reset.                                          *)

\* The openMultipart calls of the trace, and its closeMultipart calls on an
\* open section.
Opens == {j \in 1..Len(trace) : trace[j].op = "open"}
Closes == {j \in 1..Len(trace) : trace[j].op = "close" /\ trace[j].kind # "none"}

\* An Export has returned and nothing has run since.
Returned == pc = "idle" /\ lastOp = "export"

\* Position of a kind in the order mixed, related, alternative.
Rank(kind) ==
    IF kind = "mixed" THEN 1 ELSE IF kind = "related" THEN 2
    ELSE IF kind = "alternative" THEN 3 ELSE 0

\* Every close of tr closes the section opened last among those still open,
\* stack being the kinds open before tr.
RECURSIVE WellNested(_, _)
WellNested(tr, stack) ==
    IF tr = <<>> THEN TRUE
    ELSE IF Head(tr).op = "open"
         THEN WellNested(Tail(tr), Append(stack, Head(tr).kind))
    ELSE IF Head(tr).op = "close"
         THEN /\ stack # <<>>
              /\ Head(tr).kind = stack[Len(stack)]
              /\ WellNested(Tail(tr), SubSeq(stack, 1, Len(stack) - 1))
    ELSE WellNested(Tail(tr), stack)

\* C4: when Export returns it has closed as many open sections as it has
\* opened, and the depth of its writer is 0.
C4_OpensEqualCloses ==
    /\ pc = "return" => (Cardinality(Opens) = Cardinality(Closes) /\ w.depth = 0)
    /\ Returned => (Cardinality(Opens) = Cardinality(Closes) /\ msg.msgWriter.depth = 0)

\* C4 witness: an Export that opened three sections has returned.
C4_Witness == Returned /\ Cardinality(Opens) = 3

\* C5: at every point of an Export the depth is within 0..3, the open sections
\* are not closed and their kinds, outermost first, are in the order mixed,
\* related, alternative; every close closes the section opened last.
C5_DepthAndNesting ==
    /\ w.depth \in 0..maxDepth
    /\ \A i \in 1..w.depth :
          /\ ~w.writers[i].closed
          /\ Rank(w.writers[i].kind) > 0
    /\ \A i, j \in 1..w.depth :
          i < j => Rank(w.writers[i].kind) < Rank(w.writers[j].kind)
    /\ WellNested(trace, <<>>)

\* C5 witness: three sections are open and a part has been written, and
\* (later) all three have been closed again.
C5_Witness ==
    /\ pc = "return"
    /\ Cardinality(Closes) = 3
    /\ \E j \in 1..Len(trace) : trace[j].op = "write" /\ trace[j].depth = 3

\* The sections a message of np parts, ne embedded files and na attachments
\* needs.
needsMixed(np, ne, na) == (np > 0 /\ na > 0) \/ na > 1
needsRelated(np, ne, na) == (np > 0 /\ ne > 0) \/ ne > 1
needsAlternative(np, ne, na) == np > 1

NeededKinds(np, ne, na) ==
    {k \in {"mixed"} : needsMixed(np, ne, na)}
    \cup {k \in {"related"} : needsRelated(np, ne, na)}
    \cup {k \in {"alternative"} : needsAlternative(np, ne, na)}

OpenedKinds == {trace[j].kind : j \in Opens}

\* The Export in progress is past its three openMultipart decisions.
PastOpens ==
    pc \in {"parts", "closeAlternative", "embedded", "closeRelated",
            "attachments", "closeMixed", "return"}

\* C13: for 0 to 3 parts, embedded files and attachments the three has*Part
\* functions have the values of the formulas, and an Export has opened exactly
\* the sections whose formula is true.
C13_ClassifierAndOpens ==
    LET np == Len(msg.parts)
        ne == Len(msg.embedded)
        na == Len(msg.attachments)
    IN  /\ hasMixedPart(msg) = needsMixed(np, ne, na)
        /\ hasRelatedPart(msg) = needsRelated(np, ne, na)
        /\ hasAlternativePart(msg) = needsAlternative(np, ne, na)
        /\ (PastOpens \/ Returned) => OpenedKinds = NeededKinds(np, ne, na)

\* C13 witness: an Export of two or more parts, no embedded file and one
\* attachment has returned, having opened mixed and alternative only.
C13_Witness ==
    /\ Returned
    /\ Len(msg.parts) > 1 /\ Len(msg.embedded) = 0 /\ Len(msg.attachments) = 1
    /\ OpenedKinds = {"mixed", "alternative"}

\* The write calls of the trace, and the bodies written to the writer.
Writes == SelectSeq(trace, LAMBDA e : e.op = "write")
Bodies == SelectSeq(w.data, LAMBDA d : d.t = "body")

\* The entities of the message in the order parts, embedded files,
\* attachments, each with its kind, its index in its list and its body.
Entities ==
    [j \in 1..Len(msg.parts) |->
        [kind |-> "part", arg |-> j, body |-> msg.parts[j].body]]
    \o [j \in 1..Len(msg.embedded) |->
        [kind |-> "embedded", arg |-> j, body |-> msg.embedded[j].Name]]
    \o [j \in 1..Len(msg.attachments) |->
        [kind |-> "attachment", arg |-> j, body |-> msg.attachments[j].Name]]

\* The section an entity of a kind belongs in.
SectionOf(kind) ==
    IF kind = "part" THEN "alternative"
    ELSE IF kind = "embedded" THEN "related" ELSE "mixed"

\* The boundary of the section of a kind that the Export opened.
BoundaryOf(kind) == trace[CHOOSE j \in Opens : trace[j].kind = kind].arg

\* An Export is in progress.
Exporting == pc \notin {"idle", "writer", "panic"}

\* C15: an Export writes the parts in message order, then the embedded files,
\* then the attachments; when the section of an entity's kind is needed
\* (alternative for parts, related for embedded files, mixed for attachments)
\* the entity is written while that section is the innermost open one, as a
\* part of it.
C15_WriteOrderAndSection ==
    Exporting =>
        /\ Len(Writes) = Len(Bodies)
        /\ Len(Writes) <= Len(Entities)
        /\ pc = "return" => Len(Writes) = Len(Entities)
        /\ \A i \in 1..Len(Writes) :
              /\ Writes[i].kind = Entities[i].kind
              /\ Writes[i].arg = Entities[i].arg
              /\ Bodies[i].body = Entities[i].body
              /\ SectionOf(Writes[i].kind)
                    \in NeededKinds(Len(msg.parts), Len(msg.embedded),
                                    Len(msg.attachments)) =>
                    /\ Writes[i].section = SectionOf(Writes[i].kind)
                    /\ Bodies[i].to = BoundaryOf(SectionOf(Writes[i].kind))

\* C15 witness: an Export of two parts, two embedded files and two attachments
\* has written all six, every one inside a section.
C15_Witness ==
    /\ pc = "return"
    /\ Len(msg.parts) = 2 /\ Len(msg.embedded) = 2 /\ Len(msg.attachments) = 2
    /\ Len(Writes) = 6
    /\ \A i \in 1..Len(Writes) : Writes[i].depth > 0

\* No buffer has been put back twice.
NoDoublePut ==
    \A i, j \in 1..Len(pool.puts) : i < j => pool.puts[i] # pool.puts[j]

\* What Reset leaves of the message.
Cleared ==
    /\ msg.parts = <<>>
    /\ msg.attachments = <<>>
    /\ msg.embedded = <<>>
    /\ heap[msg.header] = EmptyMap
    /\ msg.msgWriter = NilWriter
    /\ msg.charset = before.charset
    /\ msg.encoding = before.encoding

\* C16: after a Reset the message has no parts, attachments or embedded
\* files, an empty header map, no stored writer and its charset and encoding
\* as before; over every sequence of Export and Reset calls no buffer is put
\* back twice, and a Reset that directly follows a Reset puts nothing back.
C16_ResetClearsPutsOnce ==
    /\ []((pc = "idle" /\ lastOp = "reset") => Cleared)
    /\ []NoDoublePut
    /\ [][(pc = "idle" /\ lastOp = "reset" /\ pc' = "idle") => pool' = pool]_vars

\* C16 witness: a Reset after an Export of a message of three parts has put
\* back the three bodies and the writer's buffer.
C16_Witness ==
    /\ pc = "idle" /\ lastOp = "reset"
    /\ exports = 1
    /\ Len(before.parts) = 3
    /\ Len(pool.puts) = 4
    /\ msg.parts = <<>>

\* C17: when the message holds two or more entities (parts, embedded files
\* and attachments together), an Export writes none of them at depth 0: each
\* is written as a part of an open section.
C17_NoEntityAtRoot ==
    ((Exporting \/ Returned) /\ Len(Entities) >= 2) =>
        \A j \in 1..Len(trace) : trace[j].op = "write" => trace[j].depth > 0

FirstOpen == trace[CHOOSE j \in Opens : \A k \in Opens : j <= k]

\* C6: when Export has opened a section, the Content-Type of the exported
\* header is multipart/<kind>; boundary=<token> of the first section it opened.
C6_TopLevelContentType ==
    (Returned /\ Opens # {}) =>
        /\ Has(exported.Header, "Content-Type")
        /\ exported.Header["Content-Type"] =
              <<"multipart/", FirstOpen.kind, "; boundary=", FirstOpen.arg>>

\* C7: after a Reset every buffer taken from the pool, the root buffer of
\* every Export and every part's body, has been put back.
C7_ResetReturnsEveryBuffer ==
    (pc = "idle" /\ lastOp = "reset") => pool.held = {}

\* C8: during and after an Export the message's parts, embedded files,
\* attachments and header map are what they were when the Export began.
C8_ExportKeepsMessage ==
    (pc # "idle" \/ lastOp = "export") => Snapshot(msg, heap) = before

\* C8 witness: an Export has returned that merged an entity's header at depth
\* 0 and defaulted Date, for a message whose own header has no Date.
C8_Witness ==
    /\ Returned
    /\ \E j \in 1..Len(trace) : trace[j].op = "write" /\ trace[j].depth = 0
    /\ ~Has(heap[msg.header], "Date")
    /\ Has(exported.Header, "Date")

\* The exported header has field f with the caller's value when the caller
\* set one and with the default otherwise.
CallerOrDefault(f, default) ==
    /\ Has(exported.Header, f)
    /\ exported.Header[f] =
          IF Has(before.headerMap, f) THEN before.headerMap[f] ELSE default

\* C9: the exported header has Mime-Version and Date, each with the caller's
\* value when the caller set one, and with 1.0 and the current time otherwise.
C9_MimeVersionAndDate ==
    Returned =>
        /\ CallerOrDefault("Mime-Version", <<"1.0">>)
        /\ CallerOrDefault("Date", NowDate)

====
